---- MODULE Spec2Model ----
(***************************************************************************)
(* Deal lifecycle of the Telegram P2P escrow bot and its reconciliation    *)
(* with the payment gateway's webhook events.                              *)
(*                                                                         *)
(* Every bot command and every HTTP request is an async handler.  A        *)
(* handler runs in a slot (hs[h]); each `await` on the store or on the     *)
(* gateway is one atomic step, and steps of different handlers interleave  *)
(* freely.  A handler holds its own copy of the document it loaded         *)
(* (hs[h].doc) and the set of paths it assigned a different value to       *)
(* (hs[h].mod); `save()` writes exactly those paths back to the store.     *)
(***************************************************************************)
EXTENDS Integers, Sequences, FiniteSets, TLC

\* ---------------------------------------------------------------- bounds
MaxUsers == 2
MaxDeals == 1
MaxHandlers == 2
MaxTransfers == 2

Users == 1..MaxUsers          \* telegram ids
DealIds == 1..MaxDeals        \* dealId values uuid can produce
Handlers == 1..MaxHandlers    \* concurrently running handlers
Amounts == {150}              \* deal amounts in cents entered in the chat
Reasons == {"late"}           \* dispute reasons
Accounts == {"acct"}          \* gateway account ids returned by OAuth
ForeignIntent == MaxDeals + 1 \* an intent of the gateway account that no deal refers to
IntentIds == DealIds \cup {ForeignIntent}

NULL == "null"                \* an unset String or Date path
NoId == 0                     \* an unset id path; ids are 1, 2, ...
SET == "set"                  \* a timestamp field that holds a Date

\* ----------------------------------------------------------- documents
NoUser == [exists |-> FALSE, stripeAccountId |-> NULL,
           stripeAccountStatus |-> "none", successfulDeals |-> 0]

NewUser == [exists |-> TRUE, stripeAccountId |-> NULL,
            stripeAccountStatus |-> "none", successfulDeals |-> 0]

NoDeal == [exists |-> FALSE, buyerId |-> NoId, sellerId |-> NoId, amount |-> 0,
           status |-> "created", stripePaymentIntentId |-> NoId,
           stripeTransferId |-> NoId, platformFeePercent |-> 3,
           disputeReason |-> NULL, disputedBy |-> NULL, disputedAt |-> NULL,
           completedAt |-> NULL, cancelledAt |-> NULL]

NewDeal(b, s, a) == [NoDeal EXCEPT !.exists = TRUE, !.buyerId = b,
                                   !.sellerId = s, !.amount = a]

DealFields == DOMAIN NoDeal

\* mutant of SaveDoc: save() replaces the stored document by the handler's copy
SaveDoc_Overwrite(stored, doc, mod) == doc

\* save(): the paths in mod are written, the others keep the stored value
SaveDoc(stored, doc, mod) ==
    [f \in DealFields |-> IF f \in mod THEN doc[f] ELSE stored[f]]

\* Math.round(x / 100) for an integer x >= 0: halves go up
RoundHundredths(x) == (x + 50) \div 100

\* dealSchema.virtual('platformFeeAmount'): Math.round(amount * (percent / 100))
PlatformFeeAmount(deal) == RoundHundredths(deal.amount * deal.platformFeePercent)

\* dealSchema.virtual('netAmount')
NetAmount(deal) == deal.amount - RoundHundredths(deal.amount * deal.platformFeePercent)

\* Math.round(amount * 0.97)
ReleaseAmount(amount) == (97 * amount + 50) \div 100

Idle == [op |-> "idle", pc |-> "idle", caller |-> NoId, deal |-> NoId,
         seller |-> NoId, reason |-> NULL, type |-> NULL, intent |-> NoId,
         acct |-> NULL, doc |-> NoDeal, mod |-> {}, out |-> NULL,
         signed |-> FALSE, sent |-> {}]

\* ------------------------------------------------------ fee arithmetic
MinAmount == 100              \* dealSchema amount min
MaxFeePercent == 10           \* dealSchema platformFeePercent max
MaxAmount == 10000            \* largest amount the fee calculation is applied to
FeeAmounts == MinAmount..MaxAmount
FeePercents == 0..MaxFeePercent
NotMade == -1                 \* a result that was not computed yet

\* StripeService.calculatePlatformFee: Math.round(amount * (feePercent / 100))
CalculatePlatformFee(amount, feePercent) == RoundHundredths(amount * feePercent)

\* mutant of CalculateNetAmount: the net share is rounded on its own
CalculateNetAmount_RoundedShare(amount, feePercent) ==
    RoundHundredths(amount * (100 - feePercent))

\* StripeService.calculateNetAmount
CalculateNetAmount(amount, feePercent) ==
    amount - CalculatePlatformFee(amount, feePercent)

NoCalc == [amount |-> MinAmount, feePercent |-> 0, fee |-> NotMade, net |-> NotMade,
           virtualFee |-> NotMade, virtualNet |-> NotMade]

VARIABLES
    users,      \* the User collection, by telegramId
    deals,      \* the Deal collection, by dealId
    intents,    \* gateway: the payment intents created for deals
    succeeded,  \* gateway: the payment intents the buyer has paid
    transfers,  \* gateway: the transfers created, in order
    hs,         \* the running handlers
    prev,       \* history: the status each deal had before its last status change
    calc        \* a fee calculation: its arguments and, once made, its results

vars == <<users, deals, intents, succeeded, transfers, hs, prev, calc>>

Init ==
    /\ users = [u \in Users |-> NoUser]
    /\ deals = [d \in DealIds |-> NoDeal]
    /\ intents = {}
    /\ succeeded = {}
    /\ transfers = <<>>
    /\ hs = [h \in Handlers |-> Idle]
    /\ prev = [d \in DealIds |-> NULL]
    /\ calc = NoCalc

\* history: remember the status a deal leaves
Track == prev' = [d \in DealIds |->
                    IF deals[d].exists /\ deals'[d].status # deals[d].status
                    THEN deals[d].status ELSE prev[d]]

\* a request is taken by the lowest free slot (slots are interchangeable)
Free(h) == /\ hs[h].op = "idle"
           /\ \A g \in Handlers : g < h => hs[g].op # "idle"

\* bot.use: the user is created on first interaction
Middleware(u) == IF users[u].exists THEN users ELSE [users EXCEPT ![u] = NewUser]

\* the handler's last step: its reply to the chat or its HTTP response; the
\* loaded document is no longer used
Reply(h, o) == [hs EXCEPT ![h].pc = "reply", ![h].out = o,
                          ![h].doc = NoDeal, ![h].mod = {}, ![h].acct = NULL]

Finish(h) ==
    /\ hs[h].pc = "reply"
    /\ hs' = [hs EXCEPT ![h] = Idle]
    /\ UNCHANGED <<users, deals, intents, succeeded, transfers, prev, calc>>

\* ------------------------------------------------- OAuth callback (web)
\* GET /stripe/callback: the token exchange succeeded for account a and the
\* `state` parameter is u; findOneAndUpdate without upsert
\* mutant of StripeCallback: the account is stored as pending
StripeCallback_Pending(u, a) ==
    /\ users[u].exists
    /\ users[u].stripeAccountId # a \/ users[u].stripeAccountStatus # "pending"
    /\ users' = [users EXCEPT ![u].stripeAccountId = a,
                              ![u].stripeAccountStatus = "pending"]
    /\ UNCHANGED <<deals, intents, succeeded, transfers, hs, prev, calc>>

StripeCallback(u, a) ==
    /\ users[u].exists
    /\ users[u].stripeAccountId # a \/ users[u].stripeAccountStatus # "active"
    /\ users' = [users EXCEPT ![u].stripeAccountId = a,
                              ![u].stripeAccountStatus = "active"]
    /\ UNCHANGED <<deals, intents, succeeded, transfers, hs, prev, calc>>

\* ------------------------------------------------ deal creation (bot)
\* bot.on('text'), step 'seller', with a forwarded message of s
CreateStart(h, u, s, a) ==
    /\ Free(h)
    /\ users' = Middleware(u)
    /\ hs' = [hs EXCEPT ![h] = [Idle EXCEPT !.op = "create", !.pc = "findSeller",
                                             !.caller = u, !.seller = s,
                                             !.doc = NewDeal(u, s, a)]]
    /\ UNCHANGED <<deals, intents, succeeded, transfers, prev, calc>>

\* mutant of CreateFindSeller: only the seller's existence is checked
CreateFindSeller_NoStripeCheck(h, d) ==
    /\ hs[h].op = "create" /\ hs[h].pc = "findSeller"
    /\ IF ~users[hs[h].seller].exists
       THEN hs' = Reply(h, "sellerNotConnected")
       ELSE hs' = [hs EXCEPT ![h].pc = "insert", ![h].deal = d]
    /\ UNCHANGED <<users, deals, intents, succeeded, transfers, prev, calc>>

\* User.findOne({telegramId: sellerId}), the Stripe check, uuidv4()
CreateFindSeller(h, d) ==
    /\ hs[h].op = "create" /\ hs[h].pc = "findSeller"
    /\ LET seller == users[hs[h].seller] IN
       IF ~seller.exists \/ seller.stripeAccountId = NULL
       THEN hs' = Reply(h, "sellerNotConnected")
       ELSE hs' = [hs EXCEPT ![h].pc = "insert", ![h].deal = d]
    /\ UNCHANGED <<users, deals, intents, succeeded, transfers, prev, calc>>

\* first deal.save(): an insert, refused by the unique index on dealId
CreateInsert(h) ==
    /\ hs[h].op = "create" /\ hs[h].pc = "insert"
    /\ IF deals[hs[h].deal].exists
       THEN /\ hs' = Reply(h, "error")
            /\ UNCHANGED deals
       ELSE /\ deals' = [deals EXCEPT ![hs[h].deal] = hs[h].doc]
            /\ hs' = [hs EXCEPT ![h].pc = "intent"]
    /\ UNCHANGED <<users, intents, succeeded, transfers, calc>>
    /\ Track

\* stripe.paymentIntents.create succeeds; the intent id is assigned to the doc
CreateIntentOk(h) ==
    /\ hs[h].op = "create" /\ hs[h].pc = "intent"
    /\ intents' = intents \cup {hs[h].deal}
    /\ hs' = [hs EXCEPT ![h].pc = "save",
                        ![h].doc.stripePaymentIntentId = hs[h].deal,
                        ![h].mod = {"stripePaymentIntentId"}]
    /\ UNCHANGED <<users, deals, succeeded, transfers, prev, calc>>

\* stripe.paymentIntents.create throws: the handler ends, nothing is undone
CreateIntentFail(h) ==
    /\ hs[h].op = "create" /\ hs[h].pc = "intent"
    /\ hs' = Reply(h, "error")
    /\ UNCHANGED <<users, deals, intents, succeeded, transfers, prev, calc>>

\* second deal.save(), then the "Deal Created" reply with its two buttons
CreateSave(h) ==
    /\ hs[h].op = "create" /\ hs[h].pc = "save"
    /\ deals' = [deals EXCEPT ![hs[h].deal] = SaveDoc(@, hs[h].doc, hs[h].mod)]
    /\ hs' = [hs EXCEPT ![h].pc = "notify", ![h].out = "created", ![h].mod = {}]
    /\ UNCHANGED <<users, intents, succeeded, transfers, calc>>
    /\ Track

\* ctx.telegram.sendMessage(sellerId, ...) in its own try/catch
CreateNotify(h, delivered) ==
    /\ hs[h].op = "create" /\ hs[h].pc = "notify"
    /\ hs' = [Reply(h, "created") EXCEPT
                ![h].sent = IF delivered THEN @ \cup {hs[h].seller} ELSE @]
    /\ UNCHANGED <<users, deals, intents, succeeded, transfers, prev, calc>>

\* ------------------------------------------------------------- gateway
\* the buyer confirms the payment intent on the gateway's side, from the
\* payment page, which is served only for a stored deal that carries the intent
BuyerPays(i) ==
    /\ i \in intents \ succeeded
    /\ \E d \in DealIds : deals[d].exists /\ deals[d].stripePaymentIntentId = i
    /\ succeeded' = succeeded \cup {i}
    /\ UNCHANGED <<users, deals, intents, transfers, hs, prev, calc>>

\* ----------------------------------------------------------- /release
ReleaseStart(h, u, d) ==
    /\ Free(h)
    /\ users' = Middleware(u)
    /\ hs' = [hs EXCEPT ![h] = [Idle EXCEPT !.op = "release", !.pc = "find",
                                             !.caller = u, !.deal = d,
                                             !.acct = users'[u].stripeAccountId]]
    /\ UNCHANGED <<deals, intents, succeeded, transfers, prev, calc>>

\* mutant of ReleaseFind: the status check only refuses a completed deal
ReleaseFind_NoPaidCheck(h) ==
    /\ hs[h].op = "release" /\ hs[h].pc = "find"
    /\ LET deal == deals[hs[h].deal] IN
       IF ~deal.exists \/ deal.sellerId # hs[h].caller
       THEN hs' = Reply(h, "notFound")
       ELSE IF deal.status = "completed"
       THEN hs' = [Reply(h, "notPaid") EXCEPT ![h].doc = deal]
       ELSE hs' = [hs EXCEPT ![h].pc = "transfer", ![h].doc = deal]
    /\ UNCHANGED <<users, deals, intents, succeeded, transfers, prev, calc>>

\* mutant of ReleaseFind: the deal is looked up by dealId alone
ReleaseFind_AnyCaller(h) ==
    /\ hs[h].op = "release" /\ hs[h].pc = "find"
    /\ LET deal == deals[hs[h].deal] IN
       IF ~deal.exists
       THEN hs' = Reply(h, "notFound")
       ELSE IF deal.status # "paid"
       THEN hs' = [Reply(h, "notPaid") EXCEPT ![h].doc = deal]
       ELSE hs' = [hs EXCEPT ![h].pc = "transfer", ![h].doc = deal]
    /\ UNCHANGED <<users, deals, intents, succeeded, transfers, prev, calc>>

\* Deal.findOne({dealId, sellerId: caller}) and the status check
ReleaseFind(h) ==
    /\ hs[h].op = "release" /\ hs[h].pc = "find"
    /\ LET deal == deals[hs[h].deal] IN
       IF ~deal.exists \/ deal.sellerId # hs[h].caller
       THEN hs' = Reply(h, "notFound")
       ELSE IF deal.status # "paid"
       THEN hs' = [Reply(h, "notPaid") EXCEPT ![h].doc = deal]
       ELSE hs' = [hs EXCEPT ![h].pc = "transfer", ![h].doc = deal]
    /\ UNCHANGED <<users, deals, intents, succeeded, transfers, prev, calc>>

\* stripe.transfers.create succeeds (the gateway refuses a transfer without a
\* destination); status, transfer id and completedAt are assigned on the
\* handler's document
ReleaseTransferOk(h) ==
    /\ hs[h].op = "release" /\ hs[h].pc = "transfer"
    /\ hs[h].acct # NULL
    /\ Len(transfers) < MaxTransfers
    /\ LET id == Len(transfers) + 1 IN
       /\ transfers' = Append(transfers,
              [id |-> id, deal |-> hs[h].deal,
               amount |-> ReleaseAmount(hs[h].doc.amount),
               destination |-> hs[h].acct, by |-> hs[h].caller])
       /\ hs' = [hs EXCEPT ![h].pc = "save",
                           ![h].doc.status = "completed",
                           ![h].doc.stripeTransferId = id,
                           ![h].doc.completedAt = SET,
                           ![h].mod = {"status", "stripeTransferId", "completedAt"}]
    /\ UNCHANGED <<users, deals, intents, succeeded, prev, calc>>

\* mutant of ReleaseTransferFail: the deal is marked completed before the
\* outcome of the transfer call is known
ReleaseTransferFail_Eager(h) ==
    /\ hs[h].op = "release" /\ hs[h].pc = "transfer"
    /\ deals' = [deals EXCEPT ![hs[h].deal].status = "completed",
                              ![hs[h].deal].completedAt = SET]
    /\ hs' = Reply(h, "transferError")
    /\ UNCHANGED <<users, intents, succeeded, transfers, calc>>
    /\ Track

\* stripe.transfers.create throws: caught, an error reply, nothing written
ReleaseTransferFail(h) ==
    /\ hs[h].op = "release" /\ hs[h].pc = "transfer"
    /\ hs' = Reply(h, "transferError")
    /\ UNCHANGED <<users, deals, intents, succeeded, transfers, prev, calc>>

\* deal.save()
ReleaseSave(h) ==
    /\ hs[h].op = "release" /\ hs[h].pc = "save"
    /\ deals' = [deals EXCEPT ![hs[h].deal] = SaveDoc(@, hs[h].doc, hs[h].mod)]
    /\ hs' = [hs EXCEPT ![h].pc = "inc"]
    /\ UNCHANGED <<users, intents, succeeded, transfers, calc>>
    /\ Track

\* mutant of ReleaseInc: the counter of the deal's buyer is incremented
ReleaseInc_Buyer(h) ==
    /\ hs[h].op = "release" /\ hs[h].pc = "inc"
    /\ users' = [users EXCEPT ![hs[h].doc.buyerId].successfulDeals = @ + 1]
    /\ hs' = [hs EXCEPT ![h].pc = "notify", ![h].out = "released", ![h].mod = {}]
    /\ UNCHANGED <<deals, intents, succeeded, transfers, prev, calc>>

\* User.updateOne({telegramId}, {$inc: {successfulDeals: 1}}), then the
\* "Funds Released" reply
ReleaseInc(h) ==
    /\ hs[h].op = "release" /\ hs[h].pc = "inc"
    /\ users' = [users EXCEPT ![hs[h].caller].successfulDeals = @ + 1]
    /\ hs' = [hs EXCEPT ![h].pc = "notify", ![h].out = "released", ![h].mod = {}]
    /\ UNCHANGED <<deals, intents, succeeded, transfers, prev, calc>>

\* ctx.telegram.sendMessage(deal.buyerId, ...) in its own try/catch
ReleaseNotify(h, delivered) ==
    /\ hs[h].op = "release" /\ hs[h].pc = "notify"
    /\ hs' = [Reply(h, "released") EXCEPT
                ![h].sent = IF delivered THEN @ \cup {hs[h].doc.buyerId} ELSE @]
    /\ UNCHANGED <<users, deals, intents, succeeded, transfers, prev, calc>>

\* ----------------------------------------------------------- /dispute
DisputeStart(h, u, d, r) ==
    /\ Free(h)
    /\ users' = Middleware(u)
    /\ hs' = [hs EXCEPT ![h] = [Idle EXCEPT !.op = "dispute", !.pc = "find",
                                             !.caller = u, !.deal = d, !.reason = r]]
    /\ UNCHANGED <<deals, intents, succeeded, transfers, prev, calc>>

\* Deal.findOne({dealId, $or: [buyer, seller]}), the status check and the
\* assignments on the handler's document
DisputeFind(h) ==
    /\ hs[h].op = "dispute" /\ hs[h].pc = "find"
    /\ LET deal == deals[hs[h].deal] IN
       IF ~deal.exists \/ (deal.buyerId # hs[h].caller /\ deal.sellerId # hs[h].caller)
       THEN hs' = Reply(h, "notFound")
       ELSE IF deal.status = "completed" \/ deal.status = "disputed"
       THEN hs' = Reply(h, "cannotDispute")
       ELSE hs' = [hs EXCEPT ![h].pc = "save",
                             ![h].doc = [deal EXCEPT !.status = "disputed",
                                                     !.disputeReason = hs[h].reason,
                                                     !.disputedAt = SET],
                             ![h].mod = {"status", "disputeReason", "disputedAt"}]
    /\ UNCHANGED <<users, deals, intents, succeeded, transfers, prev, calc>>

\* deal.save()
DisputeSave(h) ==
    /\ hs[h].op = "dispute" /\ hs[h].pc = "save"
    /\ deals' = [deals EXCEPT ![hs[h].deal] = SaveDoc(@, hs[h].doc, hs[h].mod)]
    /\ hs' = Reply(h, "disputed")
    /\ UNCHANGED <<users, intents, succeeded, transfers, calc>>
    /\ Track

\* --------------------------------------------- "Cancel Deal" button
\* callback query cancel_deal_<d> from the buyer, who got the button in the
\* "Deal Created" reply: the middleware runs, no bot.action is registered for
\* it, and the update is dropped
CancelPressed(h, d) ==
    /\ Free(h)
    /\ deals[d].exists /\ deals[d].stripePaymentIntentId # NoId
    /\ users' = Middleware(deals[d].buyerId)
    /\ hs' = [hs EXCEPT ![h] = [Idle EXCEPT !.op = "cancel", !.pc = "reply",
                                             !.caller = deals[d].buyerId,
                                             !.deal = d,
                                             !.out = "unhandled"]]
    /\ UNCHANGED <<deals, intents, succeeded, transfers, prev, calc>>

\* ------------------------------------------------------ POST /webhook/stripe
EventTypes == {"payment_intent.succeeded", "payment_intent.payment_failed", "other"}

\* an event the gateway has emitted (and signs): success only of an intent
\* that was paid, failure only of an intent that exists
Emitted(type, i) ==
    \/ type = "payment_intent.succeeded" /\ i \in succeeded \cup {ForeignIntent}
    \/ type = "payment_intent.payment_failed" /\ i \in intents \cup {ForeignIntent}
    \/ type = "other"

\* the request as it arrives: a payload of the given type about intent i,
\* with or without a signature that verifies
Request(signed, type, i) ==
    [Idle EXCEPT !.op = "webhook", !.signed = signed, !.type = type, !.intent = i]

\* the switch on event.type
Dispatch(req) ==
    IF req.type = "other"
    THEN [req EXCEPT !.pc = "reply", !.out = "200"]
    ELSE [req EXCEPT !.pc = "find"]

\* mutant of WebhookStart: the event is dispatched whatever its signature
WebhookStart_Unverified(h, signed, type, i) ==
    /\ Free(h)
    /\ signed => Emitted(type, i)
    /\ hs' = [hs EXCEPT ![h] = Dispatch(Request(signed, type, i))]
    /\ UNCHANGED <<users, deals, intents, succeeded, transfers, prev, calc>>

\* constructEvent (status 400 when it throws) and the switch on event.type
WebhookStart(h, signed, type, i) ==
    /\ Free(h)
    /\ signed => Emitted(type, i)
    /\ hs' = [hs EXCEPT ![h] =
          IF ~signed
          THEN [Request(signed, type, i) EXCEPT !.pc = "reply", !.out = "400"]
          ELSE Dispatch(Request(signed, type, i))]
    /\ UNCHANGED <<users, deals, intents, succeeded, transfers, prev, calc>>

\* Deal.findOne({stripePaymentIntentId: paymentIntent.id})
FindByIntent(i) ==
    {d \in DealIds : deals[d].exists /\ deals[d].stripePaymentIntentId = i}

\* deal.status = 'paid' on the loaded document
MarkPaid(doc) == [doc EXCEPT !.status = "paid"]

\* handlePaymentSucceeded / handlePaymentFailed up to the first write or
\* notification; the query itself succeeds
WebhookFind(h) ==
    /\ hs[h].op = "webhook" /\ hs[h].pc = "find"
    /\ IF FindByIntent(hs[h].intent) = {}
       THEN hs' = Reply(h, "200")
       ELSE \E d \in FindByIntent(hs[h].intent) :
              IF hs[h].type = "payment_intent.succeeded"
              THEN hs' = [hs EXCEPT ![h].pc = "save", ![h].deal = d,
                                    ![h].doc = MarkPaid(deals[d]),
                                    ![h].mod = {f \in DealFields :
                                                 MarkPaid(deals[d])[f] # deals[d][f]}]
              ELSE hs' = [hs EXCEPT ![h].pc = "notifyBuyer", ![h].deal = d,
                                    ![h].doc = deals[d]]
    /\ UNCHANGED <<users, deals, intents, succeeded, transfers, prev, calc>>

\* Deal.findOne rejects (the store is unreachable): the router's catch answers
\* status 500
WebhookFindFail(h) ==
    /\ hs[h].op = "webhook" /\ hs[h].pc = "find"
    /\ hs' = Reply(h, "500")
    /\ UNCHANGED <<users, deals, intents, succeeded, transfers, prev, calc>>

\* mutant of WebhookSave: the save writes nothing
WebhookSave_NoWrite(h) ==
    /\ hs[h].op = "webhook" /\ hs[h].pc = "save"
    /\ hs' = [hs EXCEPT ![h].pc = "notifyBuyer", ![h].mod = {}]
    /\ UNCHANGED <<users, deals, intents, succeeded, transfers, prev, calc>>

\* deal.save() in handlePaymentSucceeded
WebhookSave(h) ==
    /\ hs[h].op = "webhook" /\ hs[h].pc = "save"
    /\ deals' = [deals EXCEPT ![hs[h].deal] = SaveDoc(@, hs[h].doc, hs[h].mod)]
    /\ hs' = [hs EXCEPT ![h].pc = "notifyBuyer", ![h].mod = {}]
    /\ UNCHANGED <<users, intents, succeeded, transfers, calc>>
    /\ Track

\* deal.save() rejects: nothing is written and the router's catch answers
\* status 500
WebhookSaveFail(h) ==
    /\ hs[h].op = "webhook" /\ hs[h].pc = "save"
    /\ hs' = Reply(h, "500")
    /\ UNCHANGED <<users, deals, intents, succeeded, transfers, prev, calc>>

\* mutant of WebhookNotifyBuyer: the seller is notified of a failed payment too
WebhookNotifyBuyer_ThenSeller(h, delivered) ==
    /\ hs[h].op = "webhook" /\ hs[h].pc = "notifyBuyer"
    /\ hs' = [hs EXCEPT ![h].pc = "notifySeller",
                        ![h].sent = IF delivered THEN @ \cup {hs[h].doc.buyerId}
                                                 ELSE @]
    /\ UNCHANGED <<users, deals, intents, succeeded, transfers, prev, calc>>

\* bot.telegram.sendMessage(deal.buyerId, ...) in its own try/catch: delivered
\* or not, the handler goes on; a failed payment notifies the buyer only
WebhookNotifyBuyer(h, delivered) ==
    /\ hs[h].op = "webhook" /\ hs[h].pc = "notifyBuyer"
    /\ LET sent == IF delivered THEN hs[h].sent \cup {hs[h].doc.buyerId}
                                ELSE hs[h].sent IN
       hs' = IF hs[h].type = "payment_intent.succeeded"
             THEN [hs EXCEPT ![h].pc = "notifySeller", ![h].sent = sent]
             ELSE [Reply(h, "200") EXCEPT ![h].sent = sent]
    /\ UNCHANGED <<users, deals, intents, succeeded, transfers, prev, calc>>

\* mutant of WebhookNotifySeller: a failed delivery reaches the router's catch
WebhookNotifySeller_Propagates(h, delivered) ==
    /\ hs[h].op = "webhook" /\ hs[h].pc = "notifySeller"
    /\ hs' = IF delivered
             THEN [Reply(h, "200") EXCEPT ![h].sent = @ \cup {hs[h].doc.sellerId}]
             ELSE Reply(h, "500")
    /\ UNCHANGED <<users, deals, intents, succeeded, transfers, prev, calc>>

\* bot.telegram.sendMessage(deal.sellerId, ...) in its own try/catch, then
\* res.json({received: true})
WebhookNotifySeller(h, delivered) ==
    /\ hs[h].op = "webhook" /\ hs[h].pc = "notifySeller"
    /\ LET sent == IF delivered THEN hs[h].sent \cup {hs[h].doc.sellerId}
                                ELSE hs[h].sent IN
       hs' = [Reply(h, "200") EXCEPT ![h].sent = sent]
    /\ UNCHANGED <<users, deals, intents, succeeded, transfers, prev, calc>>

Next ==
    \/ \E u \in Users, a \in Accounts : StripeCallback(u, a)
    \/ \E i \in IntentIds : BuyerPays(i)
    \/ \E h \in Handlers :
         \/ \E u \in Users, s \in Users, a \in Amounts : CreateStart(h, u, s, a)
         \/ \E d \in DealIds : CreateFindSeller(h, d)
         \/ CreateInsert(h)
         \/ CreateIntentOk(h)
         \/ CreateIntentFail(h)
         \/ CreateSave(h)
         \/ \E delivered \in BOOLEAN : CreateNotify(h, delivered)
         \/ \E u \in Users, d \in DealIds : ReleaseStart(h, u, d)
         \/ ReleaseFind(h)
         \/ ReleaseTransferOk(h)
         \/ ReleaseTransferFail(h)
         \/ ReleaseSave(h)
         \/ ReleaseInc(h)
         \/ \E delivered \in BOOLEAN : ReleaseNotify(h, delivered)
         \/ \E u \in Users, d \in DealIds, r \in Reasons : DisputeStart(h, u, d, r)
         \/ DisputeFind(h)
         \/ DisputeSave(h)
         \/ \E d \in DealIds : CancelPressed(h, d)
         \/ \E signed \in BOOLEAN, type \in EventTypes, i \in IntentIds :
              WebhookStart(h, signed, type, i)
         \/ WebhookFind(h)
         \/ WebhookFindFail(h)
         \/ WebhookSave(h)
         \/ WebhookSaveFail(h)
         \/ \E delivered \in BOOLEAN : WebhookNotifyBuyer(h, delivered)
         \/ \E delivered \in BOOLEAN : WebhookNotifySeller(h, delivered)
         \/ Finish(h)

Spec == Init /\ [][Next]_vars

\* ----------------------------------------------------------- properties
\* handler h takes the step
Stepped(h) == hs'[h] # hs[h]

TransfersOf(d) == {i \in 1..Len(transfers) : transfers[i].deal = d}

\* handler h takes the step in which /release of a deal arrives from its seller
SellerStartsRelease(h) ==
    /\ hs[h].op = "idle" /\ hs'[h].op = "release"
    /\ deals[hs'[h].deal].exists
    /\ deals[hs'[h].deal].sellerId = hs'[h].caller

\* a release handler that has obtained a transfer from the gateway
HasTransferred(h) ==
    /\ hs[h].op = "release"
    /\ hs[h].pc \in {"save", "inc", "notify"}
       \/ (hs[h].pc = "reply" /\ hs[h].out = "released")

AllowedEdges == {<<"created", "paid">>, <<"paid", "completed">>,
                 <<"created", "disputed">>, <<"paid", "disputed">>,
                 <<"created", "cancelled">>, <<"paid", "refunded">>}

\* C1: over any interleaving of /release commands and payment_intent.succeeded
\* deliveries, at most one gateway transfer is ever created for a deal.
C1_AtMostOneTransferPerDeal ==
    \A d \in DealIds : Cardinality(TransfersOf(d)) <= 1

\* C2: of two release calls running concurrently on the same paid deal, exactly
\* one obtains a transfer; never have both obtained one.
C2_ConcurrentReleaseExclusive ==
    \A g, h \in Handlers :
        (g # h /\ HasTransferred(g) /\ HasTransferred(h)) => hs[g].deal # hs[h].deal

\* C3: a payment_succeeded event changes a deal's status only from created (to
\* paid); in any other status the event leaves the status as it is.
C3_PaidOnlyFromCreated ==
    [][\A h \in Handlers :
          (hs[h].op = "webhook" /\ hs[h].pc = "save" /\ Stepped(h)) =>
             LET d == hs[h].deal IN
                \/ deals'[d].status = deals[d].status
                \/ deals[d].status = "created" /\ deals'[d].status = "paid"]_vars

\* C4: every change of a deal's status is one of the edges of the state
\* machine; completed, cancelled and refunded are never left.
C4_OnlyStateMachineEdges ==
    [][\A d \in DealIds :
          (deals[d].exists /\ deals'[d].status # deals[d].status) =>
             <<deals[d].status, deals'[d].status>> \in AllowedEdges]_vars

\* C5: once a deal is disputed no operation changes its status or creates a
\* transfer for it.
C5_DisputedIsAbsorbing ==
    [][\A d \in DealIds :
          (deals[d].exists /\ deals[d].status = "disputed") =>
             /\ deals'[d].status = "disputed"
             /\ TransfersOf(d)' = TransfersOf(d)]_vars

C7_CompletedOnlyFromPaid ==
    [][\A d \in DealIds :
          (deals[d].exists /\ deals'[d].status = "completed"
                           /\ deals[d].status # "completed") =>
             deals[d].status = "paid"]_vars

\* C8: a release and a dispute on the same paid deal never both take effect:
\* no deal with a transfer is completed with a dispute recorded, and no deal
\* with a transfer is disputed.
C8_ReleaseDisputeSerialized ==
    \A d \in DealIds :
        (deals[d].exists /\ TransfersOf(d) # {}) =>
           /\ ~(deals[d].status = "completed" /\ deals[d].disputedAt = SET)
           /\ deals[d].status # "disputed"

\* C9: a release by the deal's seller writes no deal and no user field up to
\* and including the gateway transfer call; when the call fails the handler
\* ends with the error reply and deals and users are exactly as before.
C9_FailedTransferWritesNothing ==
    [][\A h \in Handlers :
          /\ SellerStartsRelease(h) => (deals' = deals /\ users' = users)
          /\ (hs[h].op = "release" /\ hs[h].pc \in {"find", "transfer"} /\ Stepped(h)) =>
                /\ deals' = deals
                /\ users' = users
                /\ (hs[h].pc = "transfer" /\ transfers' = transfers) =>
                      hs'[h].pc = "reply" /\ hs'[h].out = "transferError"]_vars

\* C9 witness: a release whose transfer call failed, the deal still paid with
\* no transfer reference or completion timestamp, the counter still 0.
C9_Witness ==
    \E h \in Handlers :
        /\ hs[h].op = "release" /\ hs[h].pc = "reply" /\ hs[h].out = "transferError"
        /\ deals[hs[h].deal].status = "paid"
        /\ deals[hs[h].deal].stripeTransferId = NoId
        /\ deals[hs[h].deal].completedAt = NULL
        /\ users[hs[h].caller].successfulDeals = 0
        /\ transfers = <<>>

\* C10: a release by the seller that reads a status other than paid ends with
\* a refusal, requests no transfer and leaves deals and users unchanged from
\* its arrival on; a dispute that is saved leaves the deal disputed with its
\* reason stored.
C10_ReleaseRefusedUnlessPaid ==
    [][\A h \in Handlers :
          /\ SellerStartsRelease(h) => UNCHANGED <<deals, users, transfers>>
          /\ (/\ hs[h].op = "release" /\ hs[h].pc = "find" /\ Stepped(h)
              /\ deals[hs[h].deal].status # "paid") =>
                /\ hs'[h].pc = "reply" /\ hs'[h].out \in {"notPaid", "notFound"}
                /\ UNCHANGED <<deals, users, transfers>>
          /\ (hs[h].op = "dispute" /\ hs[h].pc = "save" /\ Stepped(h)) =>
                /\ deals'[hs[h].deal].status = "disputed"
                /\ deals'[hs[h].deal].disputeReason = hs[h].reason]_vars

\* C10 witness: a dispute was raised on a paid deal, which is disputed with
\* the reason stored, and a later release by its seller read that status and
\* was refused.
C10_Witness ==
    \E h \in Handlers :
        /\ hs[h].op = "release" /\ hs[h].pc = "reply" /\ hs[h].out = "notPaid"
        /\ hs[h].doc.status = "disputed"
        /\ prev[hs[h].deal] = "paid"
        /\ deals[hs[h].deal].status = "disputed"
        /\ deals[hs[h].deal].disputeReason \in Reasons
        /\ transfers = <<>>

\* handler h takes a step of a /release whose caller is not the seller of the
\* deal it names (the deal may not exist)
NonSellerReleaseStep(h) ==
    /\ Stepped(h)
    /\ \/ hs[h].op = "release"
          /\ deals[hs[h].deal].sellerId # hs[h].caller
       \/ hs[h].op = "idle" /\ hs'[h].op = "release"
          /\ deals[hs'[h].deal].sellerId # hs'[h].caller

\* C11: a release call by anyone who is not the deal's seller, the buyer
\* included, never requests a transfer and never changes a deal, in any status;
\* its lookup ends the call with the not-found reply.
C11_ReleaseIsSellerOnly ==
    [][\A h \in Handlers :
          NonSellerReleaseStep(h) =>
             /\ deals' = deals
             /\ transfers' = transfers
             /\ hs'[h].pc # "transfer"
             /\ hs[h].pc = "find" => (hs'[h].pc = "reply" /\ hs'[h].out = "notFound")]_vars

\* C11 witness: the buyer of a paid deal called /release and got the not-found
\* reply; no transfer exists.
C11_Witness ==
    \E h \in Handlers :
        /\ hs[h].op = "release" /\ hs[h].pc = "reply" /\ hs[h].out = "notFound"
        /\ deals[hs[h].deal].exists
        /\ deals[hs[h].deal].status = "paid"
        /\ deals[hs[h].deal].buyerId = hs[h].caller
        /\ deals[hs[h].deal].sellerId # hs[h].caller
        /\ transfers = <<>>

C13_TransferIsNetAmount ==
    \A i \in 1..Len(transfers) :
        transfers[i].amount = NetAmount(deals[transfers[i].deal])

\* ------------------------------------------- fee arithmetic on its own
\* any valid amount and fee percentage
InitFee ==
    /\ Init!1 /\ Init!2 /\ Init!3 /\ Init!4 /\ Init!5 /\ Init!6 /\ Init!7
    /\ calc \in {[NoCalc EXCEPT !.amount = a, !.feePercent = p] :
                    a \in FeeAmounts, p \in FeePercents}

\* the service's two functions and the two virtuals of a deal with this amount
\* and percentage are evaluated
Calculate ==
    /\ calc.fee = NotMade
    /\ LET deal == [NewDeal(1, 2, calc.amount) EXCEPT
                       !.platformFeePercent = calc.feePercent] IN
       calc' = [calc EXCEPT
                  !.fee = CalculatePlatformFee(calc.amount, calc.feePercent),
                  !.net = CalculateNetAmount(calc.amount, calc.feePercent),
                  !.virtualFee = PlatformFeeAmount(deal),
                  !.virtualNet = NetAmount(deal)]
    /\ UNCHANGED <<users, deals, intents, succeeded, transfers, hs, prev>>

NextFee == Calculate

SpecFee == InitFee /\ [][NextFee]_vars

\* C14: for every amount >= 100 and fee percentage 0..10 net + fee = amount,
\* the fee is amount * percent / 100 rounded to the nearest integer with halves
\* away from zero, and 10000 at 3% gives fee 300 and net 9700; the service's
\* functions and the deal's virtuals agree.
C14_NetPlusFeeIsAmount ==
    calc.fee # NotMade =>
       /\ calc.net + calc.fee = calc.amount
       /\ calc.virtualNet + calc.virtualFee = calc.amount
       /\ 100 * calc.fee - calc.amount * calc.feePercent \in -49..50
       /\ calc.virtualFee = calc.fee
       /\ (calc.amount = 10000 /\ calc.feePercent = 3) =>
             (calc.fee = 300 /\ calc.net = 9700)

\* C14 witness: the calculation was made for 10000 at 3% and gave 300 and 9700.
C14_Witness ==
    /\ calc.amount = 10000 /\ calc.feePercent = 3
    /\ calc.fee = 300 /\ calc.net = 9700
    /\ calc.virtualFee = 300 /\ calc.virtualNet = 9700

\* C15: deal creation is one unit: when the creation of the payment intent
\* fails, no deal is left in the store.
C15_CreateIsOneUnit ==
    [][\A h \in Handlers :
         (/\ hs[h].op = "create" /\ hs[h].pc = "intent"
          /\ hs'[h].pc = "reply" /\ hs'[h].out = "error")
         => ~deals'[hs[h].deal].exists]_vars

\* C16: a creation whose seller is not an active Stripe account (no account,
\* or a user the store does not know) is refused at the seller check, stores
\* no deal and requests no payment intent; a creation past that check has an
\* active seller.
C16_InactiveSellerRefused ==
    [][\A h \in Handlers :
         (/\ Stepped(h)
          /\ hs[h].op = "create" /\ hs[h].pc # "reply"
          /\ users[hs[h].seller].stripeAccountStatus # "active")
         => /\ hs[h].pc = "findSeller"
            /\ hs'[h].pc = "reply" /\ hs'[h].out = "sellerNotConnected"
            /\ deals' = deals /\ intents' = intents]_vars

\* C16 witness: a creation naming a registered seller without Stripe account
\* was refused; there is no deal and no payment intent.
C16_Witness ==
    \E h \in Handlers :
        /\ hs[h].op = "create" /\ hs[h].pc = "reply"
        /\ hs[h].out = "sellerNotConnected"
        /\ users[hs[h].seller].exists
        /\ users[hs[h].seller].stripeAccountStatus = "none"
        /\ \A d \in DealIds : ~deals[d].exists
        /\ intents = {}

\* C17: whenever a transfer is requested or was made, the user it is paid to
\* has an active Stripe account.
C17_TransferDestinationActive ==
    /\ \A h \in Handlers :
          (hs[h].op = "release" /\ hs[h].pc = "transfer")
          => users[hs[h].caller].stripeAccountStatus = "active"
    /\ \A i \in 1..Len(transfers) :
          users[transfers[i].by].stripeAccountStatus = "active"

\* C17 witness: a transfer was made to the account of an active user.
C17_Witness ==
    /\ Len(transfers) > 0
    /\ users[transfers[1].by].stripeAccountStatus = "active"
    /\ transfers[1].destination = users[transfers[1].by].stripeAccountId

\* C18: every deal in the store has a buyer different from its seller.
C18_BuyerIsNotSeller ==
    \A d \in DealIds : deals[d].exists => deals[d].buyerId # deals[d].sellerId

\* C19: a webhook request whose signature does not verify, whatever event it
\* claims, is answered 400 at once and changes no deal, no user and sends no
\* notification.
C19_BadSignatureRejected ==
    [][\A h \in Handlers :
         (hs'[h].op = "webhook" /\ ~hs'[h].signed)
         => /\ hs'[h].pc = "reply" /\ hs'[h].out = "400"
            /\ hs'[h].sent = {}
            /\ Stepped(h) => (deals' = deals /\ users' = users)]_vars

\* C19 witness: a forged payment_intent.succeeded about the intent of a stored,
\* unpaid deal was answered 400 and the deal is still created.
C19_Witness ==
    \E h \in Handlers :
        /\ hs[h].op = "webhook" /\ ~hs[h].signed
        /\ hs[h].type = "payment_intent.succeeded"
        /\ hs[h].pc = "reply" /\ hs[h].out = "400" /\ hs[h].sent = {}
        /\ \E d \in FindByIntent(hs[h].intent) :
              deals[d].status = "created" /\ prev[d] = NULL

\* C20: the webhook endpoint answers a correctly signed event with 200
\* whatever happens while it is handled; only a request whose signature does
\* not verify gets another status.
C20_SignedAlwaysAcknowledged ==
    \A h \in Handlers :
        (hs[h].op = "webhook" /\ hs[h].pc = "reply")
        => (hs[h].signed <=> hs[h].out = "200")

\* C21: a correctly signed event whose kind is not handled, or whose intent
\* matches no stored deal, is answered 200 and changes no deal and no user.
C21_IgnoredEventAcknowledged ==
    [][\A h \in Handlers :
         /\ (hs[h].op = "idle" /\ hs'[h].op = "webhook"
             /\ hs'[h].signed /\ hs'[h].type = "other")
            => /\ hs'[h].pc = "reply" /\ hs'[h].out = "200"
               /\ deals' = deals /\ users' = users
         /\ (/\ hs[h].op = "webhook" /\ hs[h].signed /\ hs[h].pc = "find"
             /\ FindByIntent(hs[h].intent) = {}
             /\ Stepped(h))
            => /\ deals' = deals /\ users' = users
               /\ hs'[h].pc = "reply" /\ hs'[h].sent = {}
               /\ hs'[h].out = "200"]_vars

\* C22: a payment_failed event changes no deal, whatever the status of the
\* deal it matches, and notifies nobody but that deal's buyer.
C22_PaymentFailedChangesNothing ==
    [][\A h \in Handlers :
         (/\ hs[h].op = "webhook" /\ hs[h].signed
          /\ hs[h].type = "payment_intent.payment_failed"
          /\ Stepped(h))
         => /\ deals' = deals
            /\ hs'[h].pc # "save"
            /\ hs'[h].sent \subseteq
                  {deals[d].buyerId : d \in FindByIntent(hs[h].intent)}]_vars

\* C22 witness: a payment_failed event about a paid deal was handled: the
\* buyer was notified and the deal is still paid.
C22_Witness ==
    \E h \in Handlers :
        /\ hs[h].op = "webhook" /\ hs[h].signed
        /\ hs[h].type = "payment_intent.payment_failed"
        /\ hs[h].pc = "reply" /\ hs[h].out = "200"
        /\ hs[h].deal \in DealIds
        /\ deals[hs[h].deal].status = "paid"
        /\ deals[hs[h].deal].buyerId # deals[hs[h].deal].sellerId
        /\ hs[h].sent = {deals[hs[h].deal].buyerId}

\* C23: a dispute changes a deal only when the caller is its buyer or seller
\* and its status is created or paid.
C23_DisputeOnlyFromPermitted ==
    [][\A h \in Handlers :
         (hs[h].op = "dispute" /\ Stepped(h) /\ deals' # deals)
         => LET deal == deals[hs[h].deal] IN
            /\ hs[h].caller \in {deal.buyerId, deal.sellerId}
            /\ deal.status \in {"created", "paid"}]_vars

\* C24: at most one of completedAt, disputedAt and cancelledAt is set on a deal.
C24_TerminalMarkersExclusive ==
    \A d \in DealIds :
        Cardinality({f \in {"completedAt", "disputedAt", "cancelledAt"} :
                        deals[d][f] = SET}) <= 1

\* C26: a disputed deal carries its dispute reason, initiator and timestamp.
C26_DisputeFieldsRecorded ==
    \A d \in DealIds :
        (deals[d].exists /\ deals[d].status = "disputed")
        => /\ deals[d].disputeReason # NULL
           /\ deals[d].disputedBy # NULL
           /\ deals[d].disputedAt = SET

\* C25: a cancel requested on a deal in status created makes it cancelled and
\* records cancelledAt; a cancel on a deal in another status changes nothing.
C25_CancelFromCreated ==
    [][\A h \in Handlers :
         (hs[h].op = "idle" /\ hs'[h].op = "cancel")
         => LET d == hs'[h].deal IN
            IF deals[d].status = "created"
            THEN deals'[d].status = "cancelled" /\ deals'[d].cancelledAt = SET
            ELSE deals' = deals]_vars

\* the steps that send a notification to the other party
NotifyPcs == {"notify", "notifyBuyer", "notifySeller"}

\* what a handler answers when it has done its work
SuccessOf(op) ==
    CASE op = "webhook" -> "200"
      [] op = "release" -> "released"
      [] op = "create" -> "created"

CompletedOf(u) ==
    {d \in DealIds : deals[d].exists /\ deals[d].sellerId = u
                                     /\ deals[d].status = "completed"}

\* no handler is between its first and its last step
Quiescent == \A h \in Handlers : hs[h].pc \in {"idle", "reply"}

\* C28: when no handler is running, each user's successfulDeals counter is the
\* number of that user's deals as seller whose status is completed.
C28_CounterIsCompletedDeals ==
    Quiescent =>
       \A u \in Users : users[u].successfulDeals = Cardinality(CompletedOf(u))

\* ------------------------------------------------ progress of a payment
\* a step of a handler that has started, with a store that answers
HandlerStep(h) ==
    \/ \E d \in DealIds : CreateFindSeller(h, d)
    \/ CreateInsert(h)
    \/ CreateIntentOk(h)
    \/ CreateIntentFail(h)
    \/ CreateSave(h)
    \/ \E delivered \in BOOLEAN : CreateNotify(h, delivered)
    \/ ReleaseFind(h)
    \/ ReleaseTransferOk(h)
    \/ ReleaseTransferFail(h)
    \/ ReleaseSave(h)
    \/ ReleaseInc(h)
    \/ \E delivered \in BOOLEAN : ReleaseNotify(h, delivered)
    \/ DisputeFind(h)
    \/ DisputeSave(h)
    \/ WebhookFind(h)
    \/ WebhookSave(h)
    \/ \E delivered \in BOOLEAN : WebhookNotifyBuyer(h, delivered)
    \/ \E delivered \in BOOLEAN : WebhookNotifySeller(h, delivered)
    \/ Finish(h)

\* the gateway delivers the payment_intent.succeeded event of intent i
Deliver(i) ==
    \E h \in Handlers : WebhookStart(h, TRUE, "payment_intent.succeeded", i)

NextLive ==
    \/ \E u \in Users, a \in Accounts : StripeCallback(u, a)
    \/ \E i \in IntentIds : BuyerPays(i)
    \/ \E i \in IntentIds : Deliver(i)
    \/ \E h \in Handlers :
         \/ \E u \in Users, s \in Users, a \in Amounts : CreateStart(h, u, s, a)
         \/ \E u \in Users, d \in DealIds : ReleaseStart(h, u, d)
         \/ \E u \in Users, d \in DealIds, r \in Reasons : DisputeStart(h, u, d, r)
         \/ HandlerStep(h)

\* the event of a succeeded intent is delivered again and again until a request
\* gets through, and every started handler runs on
FairLive ==
    /\ \A i \in DealIds : SF_vars(Deliver(i))
    /\ \A h \in Handlers : WF_vars(HandlerStep(h))

SpecLive == Init /\ [][NextLive]_vars /\ FairLive

\* C29: a deal in status created whose payment intent has succeeded at the
\* gateway eventually has status paid.
C29_PaidEventually ==
    \A d \in DealIds :
        (/\ deals[d].exists /\ deals[d].status = "created"
         /\ deals[d].stripePaymentIntentId \in succeeded)
        ~> (deals[d].status = "paid")

\* C29 witness: the intent of a created deal succeeded and the deal went from
\* created to paid; nothing else runs.
C29_Witness ==
    /\ Quiescent
    /\ \E d \in DealIds :
          /\ deals[d].exists /\ deals[d].stripePaymentIntentId \in succeeded
          /\ deals[d].status = "paid" /\ prev[d] = "created"
====
